---- MODULE Spec2Model ----
(***************************************************************************)
(* Model of the bisection engine of diopter (src/diopter/bisector.py):     *)
(* Bisector.bisect, its in-cache phase, its normal phase with the          *)
(* substitute-midpoint recovery, and the final verification, over a small  *)
(* git history answered as src/diopter/repository.py asks git; with the    *)
(* git-bisect driver of the same file, the Bisector of src/bisector.py and *)
(* find_cached_revisions of src/diopter/utils.py.                          *)
(***************************************************************************)
EXTENDS Integers, Sequences, FiniteSets, TLC

\* ------------------------------------------------------------------ bounds
\* Number of commits on the main first-parent chain 1 - 2 - ... - ChainLen.
ChainLen == 5
\* Largest number of cached builds in a run with an arbitrary test.
MaxCached == 2
\* Number of commits that continue the main chain above commit ChainLen; no
\* run of the search starts on them but the long runs.
TipLen == 16

\* ------------------------------------------------------------ the history
\* The empty commit string "" (and a revision git cannot resolve).
NoCommit == 0
\* The bound of consecutive failures, max_failed_builds.
MaxFailedBuilds == 3
\* The bound of _terminate.
TerminationBound == 20

ChainCommits == 1..ChainLen
\* A side branch X forked from commit 2, and a merge Y of commit 3 (first
\* parent) with X (second parent):
\*      1 - 2 - 3 - 4 - ... - ChainLen - Y+1 - Y+2 - ... - Tip
\*           \   \
\*            X - Y
X == ChainLen + 1
Y == ChainLen + 2
Tip == ChainLen + 2 + TipLen
Commits == 1..Tip
\* The commits the runs with an arbitrary test are started on.
RunCommits == 1..Y

Parents(c) ==
    IF c = 1 THEN <<>>
    ELSE IF c \in ChainCommits THEN <<c - 1>>
    ELSE IF c = X THEN <<2>>
    ELSE IF c = Y THEN <<3, X>>
    ELSE IF c = Y + 1 THEN <<ChainLen>>
    ELSE <<c - 1>>

Range(s) == {s[i] : i \in DOMAIN s}

FirstParent(c) == IF Parents(c) = <<>> THEN NoCommit ELSE Parents(c)[1]

\* git rev-parse c~n: the n-th first-parent ancestor; NoCommit when there is
\* none (git fails, Repo.rev_to_commit raises RepositoryException).
RECURSIVE NthParent(_, _)
NthParent(c, n) ==
    IF n = 0 \/ c = NoCommit THEN c ELSE NthParent(FirstParent(c), n - 1)

RECURSIVE Ancestors(_)
Ancestors(c) == {c} \cup UNION {Ancestors(p) : p \in Range(Parents(c))}

\* git merge-base --is-ancestor old young
IsAncestor(old, young) == old \in Ancestors(young)

\* git merge-base a b
GetBestCommonAncestor(a, b) ==
    LET common == Ancestors(a) \cap Ancestors(b)
    IN  CHOOSE c \in common : \A d \in common : d \in Ancestors(c)

\* The first-parent chain of c, c first.
RECURSIVE FirstParentChain(_)
FirstParentChain(c) ==
    IF c = NoCommit THEN <<>> ELSE <<c>> \o FirstParentChain(FirstParent(c))

\* git rev-list --first-parent younger ^older
RevListFirstParent(younger, older) ==
    SelectSeq(FirstParentChain(younger), LAMBDA c : c \notin Ancestors(older))

DirectFirstParentPath(older, younger) ==
    RevListFirstParent(younger, older) \o <<older>>

\* Mutant: the pick is the commit from which all n are reachable, bad itself.
BisectWeightAll(n) == n

\* The weight (number of commits of the set reachable from the pick) of the
\* commit git rev-list --bisect picks among n commits of a single strand.
BisectWeight(n) ==
    IF n <= 2 THEN 1
    ELSE CHOOSE w \in 2..n :
            /\ 2 * w - n \in {-1, 0, 1}
            /\ \A v \in 2..(w - 1) : 2 * v - n \notin {-1, 0, 1}

\* Mutant: rev-list without --bisect, whose first line is bad itself.
NextBisectionCommitNoBisect(good, bad) ==
    LET revs == RevListFirstParent(bad, good)
    IN  IF Len(revs) = 0 THEN NoCommit ELSE revs[1]

\* git rev-list --bisect --first-parent bad ^good; NoCommit is the empty output.
NextBisectionCommit(good, bad) ==
    LET revs == RevListFirstParent(bad, good)
        n == Len(revs)
    IN  IF n = 0 THEN NoCommit ELSE revs[n - BisectWeight(n) + 1]

\* --------------------------------------------------------- test verdicts
\* BisectionCallback.check returns True, False or None.
Interesting == "interesting"
NotInteresting == "not_interesting"
Indeterminate == "indeterminate"
Verdicts == {Interesting, NotInteresting, Indeterminate}
\* A commit the test was not yet asked about (its verdict is not yet fixed).
Unevaluated == "unevaluated"
\* A commit on which test.check did not return: the build it asked for failed
\* and the build error was raised.
BuildFailed == "build_failed"

Max(a, b) == IF a >= b THEN a ELSE b

\* ------------------------------------------------------- pure functions
RECURSIVE Reverse(_)
Reverse(s) == IF s = <<>> THEN <<>> ELSE Reverse(Tail(s)) \o <<Head(s)>>

\* Mutant: the cached commits sorted the other way round, good end first.
FindSortedCachedCommitsGoodFirst(good, bad, cachedRevs) ==
    Reverse(SelectSeq(DirectFirstParentPath(good, bad), LAMBDA c : c \in cachedRevs))

\* Mutant: the whole path, cached or not.
FindCommitsFromRange(good, bad, cachedRevs) == DirectFirstParentPath(good, bad)

\* find_sorted_cached_commits_from_range: the cached commits of the path from
\* good to bad, in the order of the path (bad end first).
FindSortedCachedCommitsFromRange(good, bad, cachedRevs) ==
    SelectSeq(DirectFirstParentPath(good, bad), LAMBDA c : c \in cachedRevs)

\* Mutant: list.pop(0), the first candidate is dropped.
RemoveHead(s, x) == Tail(s)

\* Mutant: nothing is dropped.
RemoveNothing(s, x) == s

\* list.remove(x): the list without the first x.
RECURSIVE Remove(_, _)
Remove(s, x) ==
    IF s = <<>> THEN <<>>
    ELSE IF Head(s) = x THEN Tail(s)
    ELSE <<Head(s)>> \o Remove(Tail(s), x)

\* The guard of _get_midpoint_after_failure that raises BisectionException.
TooManyFailures(counter) == counter >= MaxFailedBuilds

\* Mutant: on an even counter the substitute is taken nine tenths of the way
\* from the failed midpoint to bad.
GetMidpointNearBad(bad, good, mid, counter) ==
    IF counter % 2 = 0
    THEN LET range_size == Len(DirectFirstParentPath(mid, bad))
             step == Max(range_size \div 10, 1)
         IN  NthParent(bad, step)
    ELSE LET range_size == Len(DirectFirstParentPath(good, mid))
             step == Max((2 * range_size) \div 10, 1)
         IN  NthParent(mid, step)

\* Mutant: on an odd counter the substitute is taken one fifth of the way from
\* good to the midpoint.
GetMidpointNearGood(bad, good, mid, counter) ==
    IF counter % 2 = 0
    THEN LET range_size == Len(DirectFirstParentPath(mid, bad))
             step == Max((9 * range_size) \div 10, 1)
         IN  NthParent(bad, step)
    ELSE LET range_size == Len(DirectFirstParentPath(good, mid))
             step == Max((8 * range_size) \div 10, 1)
         IN  NthParent(mid, step)

\* The substitute midpoint of _get_midpoint_after_failure (below its guard).
\* int(0.9 * n) is (9 * n) \div 10 and int(0.2 * n) is (2 * n) \div 10.
GetMidpointAfterFailure(bad, good, mid, counter) ==
    IF counter % 2 = 0
    THEN LET range_size == Len(DirectFirstParentPath(mid, bad))
             step == Max((9 * range_size) \div 10, 1)
         IN  NthParent(bad, step)
    ELSE LET range_size == Len(DirectFirstParentPath(good, mid))
             step == Max((2 * range_size) \div 10, 1)
         IN  NthParent(mid, step)

\* Mutant: the backstop ends the run at the first failure it has counted.
TerminateAtOnce(counter) == counter > 0

\* _terminate
Terminate(counter) == counter >= TerminationBound

\* Mutant: the verdict on the predecessor is not looked at.
CheckPassesIgnoringPre(res, pre) == res = Interesting

\* The final check of bisect: bisection_res and not pre_bisection_res, where
\* None is falsy.
CheckPasses(res, pre) == res = Interesting /\ pre # Interesting

\* Mutant: the branch-point test written as "if not test_res", None falsy.
BranchPointProceedsOnFalsy(test_res) == test_res # Interesting

\* The match on the verdict of the best common ancestor in bisect: only case
\* False goes on with the search.
BranchPointProceeds(test_res) == test_res = NotInteresting

\* The state of the loop of _normal_path_bisection after the test of its
\* midpoint returned res.
Evaluated(s, res) ==
    CASE res = Interesting -> [s EXCEPT !.bad_commit = s.midpoint]
      [] res = NotInteresting -> [s EXCEPT !.good_commit = s.midpoint]
      [] OTHER -> [s EXCEPT !.test_failed = TRUE]

\* Iterations after which the loop of _normal_path_bisection is given up as
\* not ending.
LoopFuel == ChainLen * ChainLen

\* The loop of _normal_path_bisection run to its end with the test t, a
\* function of the commit: the commit it returns (its bad_commit), or NoCommit
\* when an exception leaves it or it does not end within fuel iterations.
RECURSIVE NormalLoop(_, _, _)
NormalLoop(t, s, fuel) ==
    IF fuel = 0 THEN NoCommit
    ELSE IF ~s.test_failed
    THEN LET mid == NextBisectionCommit(s.good_commit, s.bad_commit)
         IN  IF mid = NoCommit \/ mid = s.midpoint
             THEN s.bad_commit
             ELSE NormalLoop(t,
                    Evaluated([s EXCEPT !.midpoint = mid,
                                        !.failed_to_build_counter = 0,
                                        !.guaranteed_termination_counter = 0],
                              t[mid]),
                    fuel - 1)
    ELSE IF TooManyFailures(s.failed_to_build_counter) THEN NoCommit
    ELSE LET mid == GetMidpointAfterFailure(s.bad_commit, s.good_commit, s.midpoint,
                                            s.failed_to_build_counter)
         IN  IF mid = NoCommit \/ Terminate(s.guaranteed_termination_counter)
             THEN NoCommit
             ELSE NormalLoop(t,
                    Evaluated([s EXCEPT !.midpoint = mid,
                                        !.test_failed = FALSE,
                                        !.failed_to_build_counter = @ + 1,
                                        !.guaranteed_termination_counter = @ + 1],
                              t[mid]),
                    fuel - 1)

\* _normal_path_bisection(test, bad_commit, good_commit).
NormalPathBisection(t, good, bad) ==
    NormalLoop(t, [good_commit |-> good, bad_commit |-> bad, midpoint |-> NoCommit,
                   test_failed |-> FALSE, failed_to_build_counter |-> 0,
                   guaranteed_termination_counter |-> 0], LoopFuel)

\* ------------------------------------------------------- the build cache
\* CompilerProject. Paths and names are sequences of characters; an entry of
\* the cache directory is a record of its name, whether it is a symbolic
\* link, and the projects whose compiler binary, bin/gcc or bin/clang, exists
\* below it.
GCC == "GCC"
LLVM == "LLVM"
CompilerProjects == {GCC, LLVM}

\* compiler_name in find_cached_revisions.
CompilerName(p) ==
    IF p = GCC THEN <<"g", "c", "c">> ELSE <<"c", "l", "a", "n", "g">>

Last(S) == CHOOSE i \in S : \A j \in S : j <= i

\* str.startswith
StartsWith(s, prefix) ==
    Len(s) >= Len(prefix) /\ SubSeq(s, 1, Len(prefix)) = prefix

\* PurePath.stem: the name without its last suffix; a dot at the start or at
\* the end of the name begins no suffix.
Stem(name) ==
    LET dots == {i \in 2..(Len(name) - 1) : name[i] = "."}
    IN  IF dots = {} THEN name ELSE SubSeq(name, 1, Last(dots) - 1)

\* str(entry), for an entry of Path(cache_prefix).iterdir().
EntryPath(prefix, name) == prefix \o <<"/">> \o name

\* s.split("-")[-1]
LastDashPiece(s) ==
    LET dashes == {i \in 1..Len(s) : s[i] = "-"}
    IN  IF dashes = {} THEN s ELSE SubSeq(s, Last(dashes) + 1, Len(s))

\* The entries the loop of find_cached_revisions does not skip.
IsCachedCompiler(entry, p) ==
    /\ ~entry.is_symlink
    /\ StartsWith(Stem(entry.name), CompilerName(p))
    /\ p \in entry.binaries

\* find_cached_revisions, iterdir yielding the entries in the order of listing.
FindCachedRevisions(p, prefix, listing) ==
    LET kept == SelectSeq(listing, LAMBDA entry : IsCachedCompiler(entry, p))
    IN  [i \in 1..Len(kept) |-> LastDashPiece(EntryPath(prefix, kept[i].name))]

\* The orders in which iterdir can yield the entries of a directory.
Listings(dir) == {s \in [1..Cardinality(dir) -> dir] : Range(s) = dir}

\* The identifier of commit c, as it appears in the name of a cache entry.
CommitId(c) == <<ToString(c)>>

\* ------------------------------------------------------------------ state
VARIABLES
    pc,                 \* position in Bisector.bisect
    good_rev, bad_rev,  \* the arguments of bisect
    cached,             \* what find_cached_revisions returns
    test,               \* the verdict of the test on each commit, once fixed
    checked,            \* the commits test.check was called on
    good_commit, bad_commit,
    cached_commits,     \* the candidate list of the in-cache phase
    midpoint, old_midpoint,
    test_failed,
    failed_to_build_counter,
    guaranteed_termination_counter,
    bisection_res, pre_bisection_res,
    result,             \* what bisect returns; NoCommit is None
    project,            \* the CompilerProject of the build cache
    cache_prefix,       \* the path of the cache directory
    cache_dir,          \* the entries of the cache directory
    compilers           \* the list find_cached_revisions builds

vars == <<pc, good_rev, bad_rev, cached, test, checked, good_commit, bad_commit,
          cached_commits, midpoint, old_midpoint, test_failed,
          failed_to_build_counter, guaranteed_termination_counter,
          bisection_res, pre_bisection_res, result,
          project, cache_prefix, cache_dir, compilers>>

\* The build cache and its scan: no step of a bisection changes them.
scan == <<project, cache_prefix, cache_dir, compilers>>
inputs == <<good_rev, bad_rev, cached, scan>>
counters == <<failed_to_build_counter, guaranteed_termination_counter>>
verification == <<bisection_res, pre_bisection_res>>

\* The verdicts test.check(c) can return: any, the first time; the same again
\* afterwards (the test is a function of the commit).
TestCheck(c) == IF test[c] = Unevaluated THEN Verdicts ELSE {test[c]} \cap Verdicts

\* test.check(c) can raise a build error: c has no cached build, and the call
\* did not return a verdict before.
CheckRaises(c) == c \notin cached /\ test[c] \in {Unevaluated, BuildFailed}

\* ---------------------------------------------------------------- inputs
\* The build cache of a bisection: a directory /c with one entry gcc-<id>
\* that holds bin/gcc for each cached commit, not scanned yet.
CacheHolds ==
    /\ project = GCC
    /\ cache_prefix = <<"/", "c">>
    /\ cache_dir = {[name |-> CompilerName(GCC) \o <<"-">> \o CommitId(c),
                     is_symlink |-> FALSE, binaries |-> {GCC}] : c \in cached}
    /\ compilers = <<>>

\* A run with an arbitrary test: any two different commits, few cached builds.
InitArbitrary ==
    /\ good_rev \in RunCommits
    /\ bad_rev \in RunCommits \ {good_rev}
    /\ cached \in {S \in SUBSET RunCommits : Cardinality(S) <= MaxCached}
    /\ test = [c \in Commits |-> Unevaluated]

\* A run on the main chain, from its first to its last commit, with a test
\* fixed in advance and any set of cached builds.
InitChain ==
    /\ good_rev = 1
    /\ bad_rev = ChainLen
    /\ cached \in SUBSET ChainCommits
    /\ test \in {[c \in Commits |-> IF c \in ChainCommits THEN t[c] ELSE Unevaluated] :
                    t \in [ChainCommits -> Verdicts]}

Init ==
    /\ InitArbitrary \/ InitChain
    /\ pc = "bisect"
    /\ checked = {}
    /\ good_commit = good_rev
    /\ bad_commit = bad_rev
    /\ cached_commits = <<>>
    /\ midpoint = NoCommit
    /\ old_midpoint = NoCommit
    /\ test_failed = FALSE
    /\ failed_to_build_counter = 0
    /\ guaranteed_termination_counter = 0
    /\ bisection_res = Unevaluated
    /\ pre_bisection_res = Unevaluated
    /\ result = NoCommit
    /\ CacheHolds

\* --------------------------------------------------------------- actions
\* Mutant: the best common ancestor is not made the new good.
EnterInCacheKeepingGood(good, bad) ==
    /\ pc' = "in_cache"
    /\ good_commit' = good_commit
    /\ bad_commit' = bad
    /\ cached_commits' = FindSortedCachedCommitsFromRange(good_commit, bad, cached)
    /\ midpoint' = NoCommit
    /\ old_midpoint' = NoCommit

\* Entry of _in_cache_path_bisection with the pair (good, bad).
EnterInCache(good, bad) ==
    /\ pc' = "in_cache"
    /\ good_commit' = good
    /\ bad_commit' = bad
    /\ cached_commits' = FindSortedCachedCommitsFromRange(good, bad, cached)
    /\ midpoint' = NoCommit
    /\ old_midpoint' = NoCommit

\* bisect returns None.
ReturnNone ==
    /\ pc' = "done"
    /\ result' = NoCommit

\* bisect, good is an ancestor of bad.
BisectAncestor ==
    /\ pc = "bisect"
    /\ IsAncestor(good_commit, bad_commit)
    /\ EnterInCache(good_commit, bad_commit)
    /\ UNCHANGED <<inputs, test, checked, test_failed, counters, verification, result>>

\* bisect, good is not an ancestor of bad: the best common ancestor is tested.
BisectBranchPoint ==
    /\ pc = "bisect"
    /\ ~IsAncestor(good_commit, bad_commit)
    /\ LET bca == GetBestCommonAncestor(good_commit, bad_commit)
       IN  \E test_res \in TestCheck(bca) :
            /\ test' = [test EXCEPT ![bca] = test_res]
            /\ checked' = checked \cup {bca}
            /\ IF BranchPointProceeds(test_res)
               THEN /\ EnterInCache(bca, bad_commit)
                    /\ UNCHANGED result
               ELSE /\ ReturnNone
                    /\ UNCHANGED <<good_commit, bad_commit, cached_commits,
                                   midpoint, old_midpoint>>
    /\ UNCHANGED <<inputs, test_failed, counters, verification>>

\* Mutant: the candidate next to the bad end is taken, not the middle one.
MidpointIdxFirst(cs) == 1

\* The index (from 1) of the midpoint of the in-cache phase, len // 2 from 0.
MidpointIdx(cs) == Len(cs) \div 2 + 1

\* One iteration of the loop of _in_cache_path_bisection that tests a commit.
InCacheStep ==
    /\ pc = "in_cache"
    /\ Len(cached_commits) # 0
    /\ LET idx == MidpointIdx(cached_commits)
           mid == cached_commits[idx]
       IN  /\ mid # midpoint
           /\ old_midpoint' = midpoint
           /\ midpoint' = mid
           /\ \E test_res \in TestCheck(mid) :
                /\ test' = [test EXCEPT ![mid] = test_res]
                /\ checked' = checked \cup {mid}
                /\ CASE test_res = Interesting ->
                          /\ bad_commit' = mid
                          /\ cached_commits' =
                                SubSeq(cached_commits, idx + 1, Len(cached_commits))
                          /\ UNCHANGED good_commit
                     [] test_res = NotInteresting ->
                          /\ good_commit' = mid
                          /\ cached_commits' = SubSeq(cached_commits, 1, idx - 1)
                          /\ UNCHANGED bad_commit
                     [] test_res = Indeterminate ->
                          /\ cached_commits' = Remove(cached_commits, mid)
                          /\ UNCHANGED <<good_commit, bad_commit>>
    /\ UNCHANGED <<pc, inputs, test_failed, counters, verification, result>>

\* The loop of _in_cache_path_bisection ends; _normal_path_bisection starts.
InCacheReturn ==
    /\ pc = "in_cache"
    /\ IF Len(cached_commits) = 0
       THEN TRUE
       ELSE cached_commits[MidpointIdx(cached_commits)] = midpoint
    /\ pc' = "normal"
    /\ midpoint' = NoCommit
    /\ old_midpoint' = NoCommit
    /\ test_failed' = FALSE
    /\ failed_to_build_counter' = 0
    /\ guaranteed_termination_counter' = 0
    /\ UNCHANGED <<inputs, test, checked, good_commit, bad_commit, cached_commits,
                   verification, result>>

\* Top of the loop of _normal_path_bisection after a step that did not fail:
\* the repository proposes the next midpoint, or the loop ends.
NormalPropose ==
    /\ pc = "normal"
    /\ ~test_failed
    /\ LET mid == NextBisectionCommit(good_commit, bad_commit)
       IN  /\ old_midpoint' = midpoint
           /\ midpoint' = mid
           /\ failed_to_build_counter' = 0
           /\ guaranteed_termination_counter' = 0
           /\ pc' = IF mid = NoCommit \/ mid = midpoint THEN "verify" ELSE "check"
    /\ UNCHANGED <<inputs, test, checked, good_commit, bad_commit, cached_commits,
                   test_failed, verification, result>>

\* Top of the loop after a failed step: a substitute midpoint, or the abort.
NormalRecover ==
    /\ pc = "normal"
    /\ test_failed
    /\ IF TooManyFailures(failed_to_build_counter)
       THEN \* BisectionException, caught in bisect
            /\ ReturnNone
            /\ UNCHANGED <<midpoint, test_failed, counters>>
       ELSE LET mid == GetMidpointAfterFailure(bad_commit, good_commit, midpoint,
                                               failed_to_build_counter)
            IN  IF mid = NoCommit
                THEN \* RepositoryException of rev_to_commit, caught nowhere
                     /\ pc' = "raised"
                     /\ UNCHANGED <<midpoint, test_failed, counters, result>>
                ELSE /\ midpoint' = mid
                     /\ IF Terminate(guaranteed_termination_counter)
                        THEN /\ ReturnNone
                             /\ UNCHANGED <<test_failed, counters>>
                        ELSE /\ guaranteed_termination_counter' =
                                    guaranteed_termination_counter + 1
                             /\ failed_to_build_counter' = failed_to_build_counter + 1
                             /\ test_failed' = FALSE
                             /\ pc' = "check"
                             /\ UNCHANGED result
    /\ UNCHANGED <<inputs, test, checked, good_commit, bad_commit, cached_commits,
                   old_midpoint, verification>>

\* NormalCheck with an interesting midpoint assigned to good as well as bad.
NormalCheckMovingBoth ==
    /\ pc = "check"
    /\ \E test_res \in TestCheck(midpoint) :
        /\ test' = [test EXCEPT ![midpoint] = test_res]
        /\ checked' = checked \cup {midpoint}
        /\ CASE test_res = Interesting ->
                  /\ bad_commit' = midpoint
                  /\ good_commit' = midpoint
                  /\ UNCHANGED test_failed
             [] test_res = NotInteresting ->
                  /\ good_commit' = midpoint
                  /\ UNCHANGED <<bad_commit, test_failed>>
             [] test_res = Indeterminate ->
                  /\ test_failed' = TRUE
                  /\ UNCHANGED <<good_commit, bad_commit>>
    /\ pc' = "normal"
    /\ UNCHANGED <<inputs, cached_commits, midpoint, old_midpoint, counters,
                   verification, result>>

\* NormalCheck with an indeterminate midpoint taken as the new good.
NormalCheckFailedAsGood ==
    /\ pc = "check"
    /\ \E test_res \in TestCheck(midpoint) :
        /\ test' = [test EXCEPT ![midpoint] = test_res]
        /\ checked' = checked \cup {midpoint}
        /\ CASE test_res = Interesting ->
                  /\ bad_commit' = midpoint
                  /\ UNCHANGED <<good_commit, test_failed>>
             [] test_res = NotInteresting ->
                  /\ good_commit' = midpoint
                  /\ UNCHANGED <<bad_commit, test_failed>>
             [] test_res = Indeterminate ->
                  /\ good_commit' = midpoint
                  /\ UNCHANGED <<bad_commit, test_failed>>
    /\ pc' = "normal"
    /\ UNCHANGED <<inputs, cached_commits, midpoint, old_midpoint, counters,
                   verification, result>>

\* The test of the chosen midpoint in the loop of _normal_path_bisection.
NormalCheck ==
    /\ pc = "check"
    /\ \E test_res \in TestCheck(midpoint) :
        /\ test' = [test EXCEPT ![midpoint] = test_res]
        /\ checked' = checked \cup {midpoint}
        /\ CASE test_res = Interesting ->
                  /\ bad_commit' = midpoint
                  /\ UNCHANGED <<good_commit, test_failed>>
             [] test_res = NotInteresting ->
                  /\ good_commit' = midpoint
                  /\ UNCHANGED <<bad_commit, test_failed>>
             [] test_res = Indeterminate ->
                  /\ test_failed' = TRUE
                  /\ UNCHANGED <<good_commit, bad_commit>>
    /\ pc' = "normal"
    /\ UNCHANGED <<inputs, cached_commits, midpoint, old_midpoint, counters,
                   verification, result>>

\* The check of the result of _normal_path_bisection, bad_commit, in bisect.
Verify ==
    /\ pc = "verify"
    /\ LET pre_bisection_commit == NthParent(bad_commit, 1)
       IN  IF pre_bisection_commit = NoCommit
           THEN \* RepositoryException of rev_to_commit, caught nowhere
                /\ pc' = "raised"
                /\ UNCHANGED <<test, checked, verification, result>>
           ELSE \E res \in TestCheck(bad_commit),
                   pre \in TestCheck(pre_bisection_commit) :
                    /\ test' = [test EXCEPT ![bad_commit] = res,
                                            ![pre_bisection_commit] = pre]
                    /\ checked' = checked \cup {bad_commit, pre_bisection_commit}
                    /\ bisection_res' = res
                    /\ pre_bisection_res' = pre
                    /\ pc' = "done"
                    /\ result' = IF CheckPasses(res, pre) THEN bad_commit ELSE NoCommit
    /\ UNCHANGED <<inputs, good_commit, bad_commit, cached_commits, midpoint,
                   old_midpoint, test_failed, counters>>

\* A call of test.check raises a build error. No statement of bisect, of
\* _normal_path_bisection or of the final check catches it: it leaves bisect.
BuildErrorEscapes ==
    /\ \/ /\ pc = "bisect"
          /\ ~IsAncestor(good_commit, bad_commit)
          /\ LET bca == GetBestCommonAncestor(good_commit, bad_commit)
             IN  /\ CheckRaises(bca)
                 /\ test' = [test EXCEPT ![bca] = BuildFailed]
                 /\ checked' = checked \cup {bca}
          /\ UNCHANGED bisection_res
       \/ /\ pc = "check"
          /\ CheckRaises(midpoint)
          /\ test' = [test EXCEPT ![midpoint] = BuildFailed]
          /\ checked' = checked \cup {midpoint}
          /\ UNCHANGED bisection_res
       \/ /\ pc = "verify"
          /\ NthParent(bad_commit, 1) # NoCommit
          /\ CheckRaises(bad_commit)
          /\ test' = [test EXCEPT ![bad_commit] = BuildFailed]
          /\ checked' = checked \cup {bad_commit}
          /\ UNCHANGED bisection_res
       \/ /\ pc = "verify"
          /\ NthParent(bad_commit, 1) # NoCommit
          /\ CheckRaises(NthParent(bad_commit, 1))
          /\ \E res \in TestCheck(bad_commit) :
                /\ test' = [test EXCEPT ![bad_commit] = res,
                                        ![NthParent(bad_commit, 1)] = BuildFailed]
                /\ bisection_res' = res
          /\ checked' = checked \cup {bad_commit, NthParent(bad_commit, 1)}
    /\ pc' = "raised"
    /\ UNCHANGED <<inputs, good_commit, bad_commit, cached_commits, midpoint,
                   old_midpoint, test_failed, counters, pre_bisection_res, result>>

Next ==
    \/ BisectAncestor
    \/ BisectBranchPoint
    \/ InCacheStep
    \/ InCacheReturn
    \/ NormalPropose
    \/ NormalRecover
    \/ NormalCheck
    \/ Verify
    \/ BuildErrorEscapes

Spec == Init /\ [][Next]_vars


\* bisect has ended: it returned, or an exception left it.
Ended == pc \in {"done", "raised"}

TypeOK ==
    /\ pc \in {"bisect", "in_cache", "normal", "check", "verify", "done", "raised"}
    /\ good_commit \in Commits
    /\ bad_commit \in Commits
    /\ midpoint \in Commits \cup {NoCommit}
    /\ result \in Commits \cup {NoCommit}
    /\ failed_to_build_counter \in 0..MaxFailedBuilds

\* ------------------------------------------------------------- scenarios
\* The run is on the main chain, from its first commit to its last.
ChainRun == good_rev = 1 /\ bad_rev = ChainLen /\ cached \subseteq ChainCommits

\* The test that is not interesting before commit k of the chain and
\* interesting from k on.
MonoTest(k) ==
    [c \in Commits |->
        IF c \notin ChainCommits THEN Unevaluated
        ELSE IF c < k THEN NotInteresting ELSE Interesting]

\* G1 - G2 - B1 - B2 - ... - BAD with B1 indeterminate: commits 1, 2 are not
\* interesting, 3 cannot be judged, 4 and later are interesting.
B1FailsTest ==
    [c \in Commits |->
        IF c \notin ChainCommits THEN Unevaluated
        ELSE IF c <= 2 THEN NotInteresting
        ELSE IF c = 3 THEN Indeterminate ELSE Interesting]

\* No verdict so far is indeterminate, and along every first-parent chain no
\* commit that is not interesting follows an interesting one.
MonotoneTest ==
    /\ \A c \in Commits : test[c] # Indeterminate
    /\ \A c, d \in Commits :
        (c # d /\ c \in Range(FirstParentChain(d)) /\ test[c] = Interesting)
            => test[d] # NotInteresting

\* The position of commit c in the sequence s.
Pos(s, c) == CHOOSE i \in DOMAIN s : s[i] = c

\* The best common ancestor of the arguments of bisect.
Bca == GetBestCommonAncestor(good_rev, bad_rev)

\* The runs the liveness claims are checked on: an arbitrary test with at most
\* one cached build, or the chain with one of the tests above and any cache.
LiveInit ==
    /\ Init
    /\ \/ test = [c \in Commits |-> Unevaluated] /\ Cardinality(cached) <= 1
       \/ ChainRun /\ test \in {MonoTest(k) : k \in 2..ChainLen} \cup {B1FailsTest}

\* bisect is sequential code: whenever it can take a step, it takes it.
FairSpec == LiveInit /\ [][Next]_vars /\ WF_vars(Next)

\* A step in which the test returned a verdict on midpoint' inside one of the
\* two loops.
LoopEvaluation ==
    \/ pc = "in_cache" /\ pc' = "in_cache"
    \/ pc = "check" /\ pc' = "normal"

\* ----------------------------------------------------------------- claims
\* C1: for every test a call of bisect terminates: it returns (or is left by an
\* exception) after finitely many steps. Stated for the fair behaviours.
C1_BisectTerminates == <>Ended

\* C2: whenever bisect returns a commit, the verification found the test
\* interesting on it and not interesting on its first parent.
C2_ReturnedCommitVerified ==
    (pc = "done" /\ result # NoCommit)
        => (bisection_res = Interesting /\ pre_bisection_res = NotInteresting)

\* C3: on the chain with the test switching once, at commit k, from not
\* interesting to interesting, bisect(bad = last, good = first) returns k,
\* whatever subset of the chain is cached.
C3_FindsFirstInteresting ==
    (ChainRun /\ \E k \in 2..ChainLen : test = MonoTest(k))
        => <>(pc = "done" /\ result # NoCommit /\ test = MonoTest(result))

C3_Witness ==
    /\ pc = "done" /\ ChainRun /\ test = MonoTest(3) /\ result = 3
    /\ cached = {2, 4}

\* C4: with a test that is never indeterminate and monotonic along the
\* first-parent chains, a commit that bisect returns is interesting and its
\* first parent is not.
C4_VerificationSound ==
    (pc = "done" /\ result # NoCommit /\ MonotoneTest)
        => (test[result] = Interesting
            /\ test[FirstParent(result)] = NotInteresting)

C4_Witness ==
    /\ pc = "done" /\ result # NoCommit /\ MonotoneTest
    /\ result \notin {good_rev, bad_rev}

\* C5: when good is not an ancestor of bad and the best common ancestor tests
\* interesting or indeterminate, bisect returns None at once: no phase is
\* entered and the test is called on the best common ancestor only.
C5_BranchPointAbort ==
    (~IsAncestor(good_rev, bad_rev) /\ test[Bca] \in {Interesting, Indeterminate})
        => /\ pc \in {"bisect", "done"}
           /\ result = NoCommit
           /\ checked = IF pc = "done" THEN {Bca} ELSE {}
           /\ bisection_res = Unevaluated
           /\ <<good_commit, bad_commit>> = <<good_rev, bad_rev>>

C5_Witness ==
    /\ pc = "done" /\ ~IsAncestor(good_rev, bad_rev)
    /\ test[Bca] = Indeterminate /\ checked = {Bca} /\ cached # {}

\* C6: the search starts on (best common ancestor, bad) when good is not an
\* ancestor of bad and the best common ancestor tests not interesting, and on
\* the caller's (good, bad), with no test call, when good is an ancestor of bad.
C6_BranchPointProceed ==
    [][(pc = "bisect" /\ pc' = "in_cache") =>
         /\ bad_commit' = bad_rev
         /\ cached_commits' =
                FindSortedCachedCommitsFromRange(good_commit', bad_rev, cached)
         /\ IF IsAncestor(good_rev, bad_rev)
            THEN good_commit' = good_rev /\ checked' = {} /\ test' = test
            ELSE /\ good_commit' = Bca
                 /\ checked' = {Bca}
                 /\ test'[Bca] = NotInteresting]_vars

C6_Witness ==
    /\ pc = "normal" /\ ~IsAncestor(good_rev, bad_rev)
    /\ good_commit = Bca /\ Bca # good_rev /\ bad_commit = bad_rev
    /\ checked = {Bca}

\* C7: on the chain with B1 (commit 3) indeterminate, bisect(bad = last,
\* good = first) terminates, with its bad endpoint on B1 or B2.
C7_B1FailsConverges ==
    (ChainRun /\ test = B1FailsTest) => <>(Ended /\ bad_commit \in {3, 4})

\* C9: every evaluation of the two loops leaves good and bad on the
\* first-parent path from the previous good to the previous bad, bad not
\* below good.
C9_MonotonicNarrowing ==
    [][LoopEvaluation =>
         LET path == DirectFirstParentPath(good_commit, bad_commit)
         IN  /\ good_commit' \in Range(path)
             /\ bad_commit' \in Range(path)
             /\ Pos(path, bad_commit') <= Pos(path, good_commit')]_vars

\* C10: every assignment to good or bad in the two loops assigns a commit of
\* the previous path other than the previous good and the previous bad.
C10_StrictNarrowing ==
    [][(LoopEvaluation /\ test'[midpoint'] # Indeterminate) =>
         /\ midpoint' \in Range(DirectFirstParentPath(good_commit, bad_commit))
         /\ midpoint' \notin {good_commit, bad_commit}]_vars

\* The whole chain is cached and the verdict of every commit of it is fixed.
AllCachedChainRun ==
    /\ ChainRun
    /\ cached = ChainCommits
    /\ \A c \in ChainCommits : test[c] \in Verdicts

\* The in-cache phase has returned.
AfterInCache == pc \in {"normal", "check", "verify", "done", "raised"}

\* C8 as stated: with the whole path cached and any test that is a function of
\* the commit, bad is, from the return of the in-cache phase on, the commit the
\* normal phase returns on the original pair (whenever it returns one).
C8_CacheFirstAnyTest ==
    (AllCachedChainRun /\ AfterInCache
        /\ NormalPathBisection(test, good_rev, bad_rev) # NoCommit)
        => bad_commit = NormalPathBisection(test, good_rev, bad_rev)

\* C8 amended: with the whole path cached and a test that is never
\* indeterminate and switches once from not interesting to interesting, the
\* normal phase on the original pair returns a commit, and bad is that commit
\* from the return of the in-cache phase on.
C8_CacheFirstMonotone ==
    (AllCachedChainRun /\ AfterInCache /\ \E k \in 2..ChainLen : test = MonoTest(k))
        => /\ NormalPathBisection(test, good_rev, bad_rev) # NoCommit
           /\ bad_commit = NormalPathBisection(test, good_rev, bad_rev)

C8_Witness ==
    /\ AllCachedChainRun /\ test = MonoTest(3)
    /\ pc = "verify" /\ bad_commit = 3 /\ good_commit = 2
    /\ NormalPathBisection(test, good_rev, bad_rev) = 3

\* A step of the normal phase that starts in a failed state, where the loop
\* either finds a substitute midpoint or gives the search up.
RecoveryStep == pc = "normal" /\ test_failed

\* C11: a failed state of the normal phase never leaves bisect by an
\* exception: the search goes on with a substitute midpoint or bisect returns
\* None, and it returns None when the consecutive failures reached the bound.
C11_AbortIsNullResult ==
    [][RecoveryStep =>
         /\ pc' \in {"check", "done"}
         /\ (pc' = "done" => result' = NoCommit)
         /\ (TooManyFailures(failed_to_build_counter) => pc' = "done")]_vars

\* C12: in the normal phase a build error raised for the chosen midpoint is
\* handled as an indeterminate verdict is: the iteration is marked failed, good
\* and bad stay, the loop goes on, and the error does not leave bisect.
C12_BuildFailureRecovered ==
    [][(pc = "check" /\ test'[midpoint] \in {BuildFailed, Indeterminate}) =>
         /\ pc' = "normal"
         /\ test_failed'
         /\ UNCHANGED <<good_commit, bad_commit>>]_vars

\* ------------------------------------------------- the git-bisect driver
\* bisect(repo, good, bad, callback) of src/diopter/bisector.py, lines 120 to
\* 144, on the same variables: midpoint is BISECT_HEAD, good_commit a commit
\* marked by git bisect good, bad_commit the ref bisect/bad, NoCommit a ref
\* that does not exist.

\* currently_bisecting: its body is pass, it returns None, which is falsy.
CurrentlyBisecting == FALSE

\* The call on the chain, first commit good, last commit bad, with a callback
\* fixed in advance; no bisection is started, so none of the refs exists.
DriverInit ==
    /\ pc = "driver"
    /\ good_rev = 1
    /\ bad_rev = ChainLen
    /\ cached = {}
    /\ test \in {[c \in Commits |-> IF c \in ChainCommits THEN t[c] ELSE Unevaluated] :
                    t \in [ChainCommits -> Verdicts]}
    /\ checked = {}
    /\ good_commit = NoCommit
    /\ bad_commit = NoCommit
    /\ cached_commits = <<>>
    /\ midpoint = NoCommit
    /\ old_midpoint = NoCommit
    /\ test_failed = FALSE
    /\ failed_to_build_counter = 0
    /\ guaranteed_termination_counter = 0
    /\ bisection_res = Unevaluated
    /\ pre_bisection_res = Unevaluated
    /\ result = NoCommit
    /\ CacheHolds

\* repo.current_branch() and repo.add_worktree(): subprocess.run is given the
\* command as one string without shell=True, which runs it where the platform
\* splits the string itself and raises FileNotFoundError where the string is
\* taken as the name of the program.
DriverAddWorktree ==
    /\ pc = "driver"
    /\ pc' \in {"driver_loop", "raised"}
    /\ UNCHANGED <<inputs, test, checked, good_commit, bad_commit, cached_commits,
                   midpoint, old_midpoint, test_failed, counters, verification,
                   result>>

\* The while loop and what follows it. An iteration reads BISECT_HEAD, asks
\* the callback and runs git bisect skip (None), git bisect good (True) or git
\* bisect bad (False); after the loop bisect/bad is read and returned.
\* rev_parse raises CalledProcessError on a ref that does not exist.
DriverLoop ==
    /\ pc = "driver_loop"
    /\ IF CurrentlyBisecting
       THEN IF midpoint = NoCommit
            THEN /\ pc' = "raised"
                 /\ UNCHANGED <<test, checked, good_commit, bad_commit,
                                cached_commits, result>>
            ELSE \E test_res \in TestCheck(midpoint) :
                    /\ test' = [test EXCEPT ![midpoint] = test_res]
                    /\ checked' = checked \cup {midpoint}
                    /\ CASE test_res = Indeterminate ->
                              /\ cached_commits' = Remove(cached_commits, midpoint)
                              /\ UNCHANGED <<good_commit, bad_commit>>
                         [] test_res = Interesting ->
                              /\ good_commit' = midpoint
                              /\ UNCHANGED <<bad_commit, cached_commits>>
                         [] test_res = NotInteresting ->
                              /\ bad_commit' = midpoint
                              /\ UNCHANGED <<good_commit, cached_commits>>
                    /\ UNCHANGED <<pc, result>>
       ELSE /\ IF bad_commit = NoCommit
               THEN pc' = "raised" /\ UNCHANGED result
               ELSE pc' = "done" /\ result' = bad_commit
            /\ UNCHANGED <<test, checked, good_commit, bad_commit, cached_commits>>
    /\ UNCHANGED <<inputs, midpoint, old_midpoint, test_failed, counters,
                   verification>>

DriverNext == DriverAddWorktree \/ DriverLoop

DriverSpec == DriverInit /\ [][DriverNext]_vars

\* The callback of the claim: False before commit k, True on k and later,
\* except None on the later commit s.
SkipTest(k, s) ==
    [c \in Commits |->
        IF c \notin ChainCommits THEN Unevaluated
        ELSE IF c < k THEN NotInteresting
        ELSE IF c = s THEN Indeterminate ELSE Interesting]

\* C13: with such a callback the driver, called with the first commit as good
\* and the last as bad, ends by returning k, and s is marked neither good nor
\* bad.
C13_DriverFindsFirstTrue ==
    (Ended /\ \E k \in 2..(ChainLen - 2) : \E s \in (k + 1)..(ChainLen - 1) :
                test = SkipTest(k, s))
        => /\ pc = "done"
           /\ test = SkipTest(result, CHOOSE s \in ChainCommits : test[s] = Indeterminate)
           /\ test[good_commit] # Indeterminate
           /\ test[bad_commit] # Indeterminate

\* ------------------------------------------------------ the in-cache phase
\* An iteration of the in-cache loop that evaluated the test (on midpoint').
InCacheEvaluation == pc = "in_cache" /\ pc' = "in_cache"

\* C14: the in-cache phase tests the candidate at index len // 2 of its list;
\* if it is interesting, bad becomes it, good stays and the candidates kept are
\* those after it in the list; if it is not interesting, good becomes it, bad
\* stays and the candidates kept are those before it in the list.
C14_InCacheUpdateRule ==
    [][InCacheEvaluation =>
         LET cs == cached_commits
             n == Len(cs)
             mid == cs[(n \div 2) + 1]
         IN  /\ midpoint' = mid
             /\ test'[mid] = Interesting =>
                  /\ bad_commit' = mid /\ good_commit' = good_commit
                  /\ cached_commits' = SubSeq(cs, (n \div 2) + 2, n)
                  /\ \A i \in 1..n :
                        cs[i] \in Range(cached_commits') <=> i > (n \div 2) + 1
             /\ test'[mid] = NotInteresting =>
                  /\ good_commit' = mid /\ bad_commit' = bad_commit
                  /\ cached_commits' = SubSeq(cs, 1, n \div 2)
                  /\ \A i \in 1..n :
                        cs[i] \in Range(cached_commits') <=> i < (n \div 2) + 1]_vars

C14_Witness ==
    /\ pc = "in_cache" /\ midpoint # NoCommit
    /\ test[midpoint] = NotInteresting /\ good_commit = midpoint
    /\ Len(cached_commits) = 2 /\ Cardinality(cached) = ChainLen

\* C15: an indeterminate verdict in the in-cache phase drops the midpoint, and
\* nothing else, from the candidate list, leaves good and bad as they are, and
\* the loop goes on with the remaining candidates.
C15_InCacheIndeterminate ==
    [][(InCacheEvaluation /\ test'[midpoint'] = Indeterminate) =>
         /\ UNCHANGED <<good_commit, bad_commit>>
         /\ cached_commits' = SelectSeq(cached_commits, LAMBDA c : c # midpoint')
         /\ Len(cached_commits') = Len(cached_commits) - 1
         /\ cached_commits' # <<>> =>
                cached_commits'[(Len(cached_commits') \div 2) + 1] # midpoint']_vars

C15_Witness ==
    /\ pc = "in_cache" /\ midpoint # NoCommit
    /\ test[midpoint] = Indeterminate
    /\ Len(cached_commits) = 2 /\ midpoint \notin Range(cached_commits)
    /\ <<good_commit, bad_commit>> = <<good_rev, bad_rev>>

\* C16: the in-cache phase terminates for any test: every evaluation is of a
\* candidate and leaves a shorter list without it, the phase is left only by
\* passing good and bad to the normal phase, and it is left.
C16_InCacheTerminates ==
    /\ [][(pc = "in_cache") =>
            /\ pc' \in {"in_cache", "normal"}
            /\ result' = result
            /\ pc' = "in_cache" =>
                 /\ Len(cached_commits') < Len(cached_commits)
                 /\ midpoint' \in Range(cached_commits) \ Range(cached_commits')
                 /\ Range(cached_commits') \subseteq Range(cached_commits)
            /\ pc' = "normal" => UNCHANGED <<good_commit, bad_commit>>]_vars
    /\ (pc = "in_cache") ~> (pc = "normal")

C16_Witness ==
    /\ pc = "normal" /\ midpoint = NoCommit /\ ChainRun
    /\ Cardinality(checked) = 3 /\ checked \subseteq cached

\* C17: the candidate list the in-cache phase starts with holds exactly the
\* commits of the first-parent path from good to bad that have a cached build,
\* in the order of the path, bad end first, and the phase evaluates the test on
\* commits with a cached build only.
C17_CandidatesAreCachedPath ==
    [][/\ (pc = "bisect" /\ pc' = "in_cache") =>
            LET path == DirectFirstParentPath(good_commit', bad_commit')
                cs == cached_commits'
            IN  /\ Range(cs) = Range(path) \cap cached
                /\ \A i, j \in DOMAIN cs :
                      i < j => Pos(path, cs[i]) < Pos(path, cs[j])
       /\ InCacheEvaluation =>
            /\ midpoint' \in cached
            /\ checked' = checked \cup {midpoint'}
            /\ \A c \in Commits : test'[c] # test[c] => c = midpoint']_vars

C17_Witness ==
    /\ pc = "in_cache" /\ midpoint # NoCommit
    /\ cached_commits = <<>> /\ Cardinality(cached) = 2
    /\ ~IsAncestor(good_rev, bad_rev)
    /\ checked = {Bca, midpoint} /\ midpoint # Bca
    /\ cached \ Range(DirectFirstParentPath(Bca, bad_rev)) # {}

\* ------------------------------------------------------- the normal phase
\* C18: after a step that did not fail the loop of the normal phase asks the
\* repository for the next midpoint; it ends, with the current bad as its
\* result, exactly when the proposal is empty or is the previous midpoint, and
\* then bad is the only commit on the first-parent path above good.
C18_NormalExitRule ==
    [][(pc = "normal" /\ ~test_failed) =>
         LET mid == NextBisectionCommit(good_commit, bad_commit)
         IN  /\ pc' = "verify" <=> (mid = NoCommit \/ mid = midpoint)
             /\ pc' = "verify" =>
                  /\ UNCHANGED <<good_commit, bad_commit>>
                  /\ Len(RevListFirstParent(bad_commit, good_commit)) <= 1
             /\ pc' # "verify" => (pc' = "check" /\ midpoint' = mid)]_vars

C18_Witness ==
    /\ pc = "verify" /\ midpoint = bad_commit /\ bad_commit # bad_rev
    /\ good_commit # good_rev
    /\ DirectFirstParentPath(good_commit, bad_commit) = <<bad_commit, good_commit>>

\* ------------------------------------------- long runs with a broken region
\* The number of commits of the first-parent chain of c.
Depth(c) == Len(FirstParentChain(c))

\* The test that is not interesting below depth lo of the main chain,
\* indeterminate from depth lo to depth hi, and interesting above.
BrokenRegionTest(lo, hi) ==
    [c \in Commits |->
        IF c \in {X, Y} THEN Unevaluated
        ELSE IF Depth(c) < lo THEN NotInteresting
        ELSE IF Depth(c) <= hi THEN Indeterminate ELSE Interesting]

\* bisect(bad = Tip, good = 1) with nothing cached and a test with a broken
\* region (none, when hi is below lo).
LongInit ==
    /\ pc = "bisect"
    /\ good_rev = 1
    /\ bad_rev = Tip
    /\ cached = {}
    /\ \E lo \in 2..(Depth(Tip) - 1) : \E hi \in (lo - 1)..(Depth(Tip) - 1) :
            test = BrokenRegionTest(lo, hi)
    /\ checked = {}
    /\ good_commit = good_rev
    /\ bad_commit = bad_rev
    /\ cached_commits = <<>>
    /\ midpoint = NoCommit
    /\ old_midpoint = NoCommit
    /\ test_failed = FALSE
    /\ failed_to_build_counter = 0
    /\ guaranteed_termination_counter = 0
    /\ bisection_res = Unevaluated
    /\ pre_bisection_res = Unevaluated
    /\ result = NoCommit
    /\ CacheHolds

\* The steps such a run can take.
LongNext ==
    \/ BisectAncestor
    \/ InCacheReturn
    \/ NormalPropose
    \/ NormalRecover
    \/ NormalCheck
    \/ Verify

LongSpec == LongInit /\ [][LongNext]_vars

\* a lies on the first-parent chain of b.
OnFirstParentChain(a, b) == a \in Range(FirstParentChain(b))

\* The number of first-parent steps from b down to a.
Dist(a, b) == Pos(FirstParentChain(b), a) - 1

\* A step of the normal phase that takes a substitute midpoint, midpoint', for
\* the failed midpoint, on an even and on an odd count of consecutive failures.
EvenRecovery == RecoveryStep /\ pc' = "check" /\ failed_to_build_counter % 2 = 0
OddRecovery == RecoveryStep /\ pc' = "check" /\ failed_to_build_counter % 2 = 1

\* C19 as stated: on an even count of failures the substitute lies nine tenths
\* of the way from the failed midpoint to bad: its distance to bad is one tenth
\* of that of the failed midpoint, give or take a commit.
C19_SubstituteNearBad ==
    [][(EvenRecovery /\ OnFirstParentChain(midpoint, bad_commit)
            /\ midpoint # bad_commit) =>
         /\ OnFirstParentChain(midpoint', bad_commit)
         /\ 10 * Dist(midpoint', bad_commit) <= Dist(midpoint, bad_commit) + 10]_vars

\* C19 amended: on an even count of failures the substitute is the commit
\* max(int(0.9 * n), 1) first-parent steps below bad, n the number of commits
\* of the path from the failed midpoint to bad; for a failed midpoint below bad
\* it lies between that midpoint and bad, at most one tenth of n above the
\* midpoint and nearer to it than to bad.
C19_SubstituteTenthTowardBad ==
    [][EvenRecovery =>
         LET n == Len(DirectFirstParentPath(midpoint, bad_commit))
         IN  /\ midpoint' = NthParent(bad_commit, Max((9 * n) \div 10, 1))
             /\ (OnFirstParentChain(midpoint, bad_commit) /\ midpoint # bad_commit) =>
                  /\ OnFirstParentChain(midpoint', bad_commit)
                  /\ OnFirstParentChain(midpoint, midpoint')
                  /\ 10 * Dist(midpoint, midpoint') <= n
                  /\ Dist(midpoint, midpoint') < Dist(midpoint', bad_commit)]_vars

C19_Witness ==
    /\ pc = "check" /\ failed_to_build_counter = 1
    /\ bad_commit = Tip /\ good_commit = 1
    /\ OnFirstParentChain(NextBisectionCommit(good_commit, bad_commit), midpoint)
    /\ Dist(NextBisectionCommit(good_commit, bad_commit), midpoint) = 1

\* C20 as stated: on an odd count of failures the substitute lies one fifth of
\* the way from good to the midpoint: its distance from good is one fifth of
\* that of the midpoint, give or take a commit.
C20_SubstituteNearGood ==
    [][(OddRecovery /\ OnFirstParentChain(good_commit, midpoint)
            /\ midpoint # good_commit) =>
         /\ OnFirstParentChain(good_commit, midpoint')
         /\ 5 * Dist(good_commit, midpoint') <= Dist(good_commit, midpoint) + 5]_vars

\* C20 amended: on an odd count of failures the substitute is the commit
\* max(int(0.2 * n), 1) first-parent steps below the midpoint, n the number of
\* commits of the path from good to the midpoint; for a midpoint above good it
\* lies between good and the midpoint, at least one commit and at most one
\* fifth of n, give or take a commit, below the midpoint.
C20_SubstituteFifthTowardGood ==
    [][OddRecovery =>
         LET n == Len(DirectFirstParentPath(good_commit, midpoint))
         IN  /\ midpoint' = NthParent(midpoint, Max((2 * n) \div 10, 1))
             /\ (OnFirstParentChain(good_commit, midpoint) /\ midpoint # good_commit) =>
                  /\ OnFirstParentChain(good_commit, midpoint')
                  /\ OnFirstParentChain(midpoint', midpoint)
                  /\ Dist(midpoint', midpoint) >= 1
                  /\ 5 * Dist(midpoint', midpoint) <= n + 5]_vars

C20_Witness ==
    /\ pc = "check" /\ failed_to_build_counter = 2
    /\ bad_commit = Tip /\ good_commit = 1
    /\ Dist(good_commit, midpoint) > 5
    /\ midpoint = NthParent(NextBisectionCommit(good_commit, bad_commit), 1)

\* ------------------------------------------------- recovery and counters
\* C21: the substitute midpoint taken after a failed evaluation is another
\* commit than the midpoint that failed.
C21_SubstituteDiffers ==
    [][(RecoveryStep /\ pc' = "check") => midpoint' # midpoint]_vars


\* C22: failed_to_build_counter is back at 0 after every successful
\* evaluation, and the bisection is aborted as soon as the counter reaches
\* MaxFailedBuilds: no commit is evaluated while the counter has that value.
C22_FailedBuildBound ==
    [][ /\ (pc' = "check" => failed_to_build_counter' < MaxFailedBuilds)
        /\ (pc = "normal" /\ ~test_failed /\ pc' # "raised"
              => failed_to_build_counter' = 0) ]_vars


\* The next iteration of the normal loop takes the branch of a successful
\* evaluation, which sets both counters to 0.
ResetsNext == pc = "normal" /\ ~test_failed

\* C23: guaranteed_termination_counter grows by one on every failure path
\* and is set back to 0 only after an evaluation that changed good or bad:
\* an evaluation that leaves both where they were, made while the counter
\* is positive, is not followed by an iteration that resets the counter.
C23_ResetOnlyOnAdvance ==
    [][ /\ (RecoveryStep /\ pc' = "check"
              => guaranteed_termination_counter' = guaranteed_termination_counter + 1)
        /\ (pc = "check" /\ pc' = "normal" /\ guaranteed_termination_counter > 0
              /\ good_commit' = good_commit /\ bad_commit' = bad_commit
              => ~ResetsNext') ]_vars


\* -------------------------------------------- normal-phase evaluation
\* An evaluation of the midpoint in the loop of _normal_path_bisection.
NormalEvaluation == pc = "check" /\ pc' = "normal"

\* C24: an evaluation in the normal phase changes only bad (to the midpoint)
\* on an interesting verdict, only good (to the midpoint) on a
\* not-interesting verdict, and neither on an indeterminate verdict, which
\* only marks the iteration as failed; the midpoint and the counters stay.
C24_NormalEvaluationFrame ==
    [][NormalEvaluation =>
         /\ UNCHANGED <<midpoint, old_midpoint, counters, cached_commits>>
         /\ test'[midpoint] = Interesting =>
              bad_commit' = midpoint /\ UNCHANGED <<good_commit, test_failed>>
         /\ test'[midpoint] = NotInteresting =>
              good_commit' = midpoint /\ UNCHANGED <<bad_commit, test_failed>>
         /\ test'[midpoint] = Indeterminate =>
              test_failed' /\ UNCHANGED <<good_commit, bad_commit>>]_vars

\* A run without cache in which the three verdicts have all been met in the
\* normal phase: bad and good are midpoints that were evaluated, and the
\* last midpoint was indeterminate.
C24_Witness ==
    /\ pc = "normal" /\ cached = {} /\ test_failed
    /\ test[midpoint] = Indeterminate
    /\ bad_commit # bad_rev /\ test[bad_commit] = Interesting
    /\ good_commit \notin {good_rev, Bca} /\ test[good_commit] = NotInteresting
    /\ {good_commit, bad_commit, midpoint} \subseteq checked


\* ------------------------------------------------ first-parent interval
\* The branch-point handling at the start of bisect is over and the run
\* has not ended.
BranchPointHandled == pc \in {"in_cache", "normal", "check", "verify"}

\* C25: once the branch-point handling is done, good lies on the
\* first-parent chain of bad, also in a history with merge commits where
\* good is an ancestor of bad through a second parent only.
C25_GoodOnFirstParentChain ==
    BranchPointHandled => OnFirstParentChain(good_commit, bad_commit)


\* C28: in the normal loop guaranteed_termination_counter always equals
\* failed_to_build_counter, so _terminate never holds and every abort of the
\* loop comes from the bound on failed_to_build_counter.
C28_CountersEqual ==
    [][ /\ pc' \in {"normal", "check"}
            => /\ guaranteed_termination_counter' = failed_to_build_counter'
               /\ guaranteed_termination_counter' < TerminationBound
        /\ (RecoveryStep /\ pc' = "done")
            => TooManyFailures(failed_to_build_counter) ]_vars

\* The loop was aborted with both counters at the bound of failed builds.
C28_Witness ==
    /\ pc = "done" /\ result = NoCommit /\ test_failed
    /\ failed_to_build_counter = MaxFailedBuilds
    /\ guaranteed_termination_counter = MaxFailedBuilds

\* C29: in the two phases the current bad is the bad bisect was entered with
\* or a commit the test found interesting, and the current good is the
\* initial good (the good of the caller or the best common ancestor) or a
\* commit the test found not interesting; a commit on which the test was
\* indeterminate does not become an endpoint.
C29_EndpointVerdicts ==
    BranchPointHandled =>
        /\ bad_commit = bad_rev \/ test[bad_commit] = Interesting
        /\ good_commit \in {good_rev, Bca} \/ test[good_commit] = NotInteresting
        /\ \A c \in {good_commit, bad_commit} \ {good_rev, bad_rev, Bca} :
              test[c] # Indeterminate

\* Both endpoints have been moved to evaluated midpoints, after an
\* indeterminate verdict on a third commit.
C29_Witness ==
    /\ BranchPointHandled
    /\ bad_commit # bad_rev /\ test[bad_commit] = Interesting
    /\ good_commit \notin {good_rev, Bca} /\ test[good_commit] = NotInteresting
    /\ \E c \in checked : test[c] = Indeterminate

\* C30: every commit evaluated in the normal phase, a proposed midpoint or a
\* substitute, lies on the first-parent path from the current good to the
\* current bad, both included.
C30_MidpointInsideInterval ==
    [][(pc = "normal" /\ pc' = "check")
          => midpoint' \in Range(DirectFirstParentPath(good_commit, bad_commit))]_vars

\* ------------------------------------------- the Bisector of src/bisector.py
\* Bisector.bisect of src/bisector.py bisects a case between the commit of its
\* bad setting, bad_rev, and the commit of its first good setting, good_rev.
\* No repository module comes with src/bisector.py: its calls on repo are the
\* methods of the same names of src/diopter/repository.py.

\* _bisection gives up at this number of substitute midpoints.
MaxBuildFail == 2

\* _is_interesting returns True or False.
LegacyVerdicts == {Interesting, NotInteresting}

\* The outcomes of self._is_interesting(case, c): a verdict, the same at every
\* call, or the BuildException of a commit that has no cached build.
LegacyIsInteresting(c) ==
    (IF test[c] = Unevaluated THEN LegacyVerdicts ELSE {test[c]} \cap LegacyVerdicts)
        \cup (IF CheckRaises(c) THEN {BuildFailed} ELSE {})

\* The argument interesting_is_bad of _bisection and _check in bisect: False in
\* the case b2 only, where good is not an ancestor of bad and the common
\* ancestor is interesting.
InterestingIsBad ==
    IsAncestor(good_rev, bad_rev) \/ test[Bca] # Interesting

\* bisect calls _check on the result: not when good is an ancestor of bad.
LegacyChecked == ~IsAncestor(good_rev, bad_rev)

\* The verdict that moves bad_rev in the loops of _bisection.
MovesBad(test_res) == (test_res = Interesting) <=> InterestingIsBad

\* The substitute midpoint of _bisection after a build failure.
\* int(0.9 * n) is (9 * n) \div 10 and int(0.1 * n) is n \div 10.
LegacyMidpointAfterFailure(bad, good, mid, counter) ==
    IF counter % 2 = 0
    THEN LET range_size == Len(DirectFirstParentPath(mid, bad))
             step == Max((9 * range_size) \div 10, 1)
         IN  NthParent(bad, step)
    ELSE LET range_size == Len(DirectFirstParentPath(good, mid))
             step == Max(range_size \div 10, 1)
         IN  NthParent(mid, step)

\* Mutant: the polarity of the regression search, whatever the search.
LegacyResultPassesUnswapped(res, interesting_is_bad) == res = Interesting

\* The assertion of _check, first conjunct: the verdict of rev.
LegacyResultPasses(res, interesting_is_bad) ==
    res = (IF interesting_is_bad THEN Interesting ELSE NotInteresting)

\* The assertion of _check, second conjunct: the verdict of rev~.
LegacyPredecessorPasses(pre, interesting_is_bad) ==
    pre = (IF interesting_is_bad THEN NotInteresting ELSE Interesting)

\* A case with reduced code that has no bisection yet, any two different
\* commits, few cached builds.
LegacyInit ==
    /\ InitArbitrary
    /\ pc = "legacy"
    /\ checked = {}
    /\ good_commit = good_rev
    /\ bad_commit = bad_rev
    /\ cached_commits = <<>>
    /\ midpoint = NoCommit
    /\ old_midpoint = NoCommit
    /\ test_failed = FALSE
    /\ failed_to_build_counter = 0
    /\ guaranteed_termination_counter = 0
    /\ bisection_res = Unevaluated
    /\ pre_bisection_res = Unevaluated
    /\ result = NoCommit
    /\ CacheHolds

\* Entry of _bisection with the pair (good, bad).
EnterLegacyBisection(good, bad) ==
    /\ pc' = "legacy_in_cache"
    /\ good_commit' = good
    /\ bad_commit' = bad
    /\ cached_commits' = FindSortedCachedCommitsFromRange(good, bad, cached)
    /\ midpoint' = NoCommit
    /\ old_midpoint' = NoCommit

\* bisect up to the call of _bisection: the cases b0, b1 and b2.
LegacyBisect ==
    /\ pc = "legacy"
    /\ IF IsAncestor(good_commit, bad_commit)
       THEN /\ EnterLegacyBisection(good_commit, bad_commit)
            /\ UNCHANGED <<test, checked>>
       ELSE \E test_res \in LegacyIsInteresting(Bca) :
             /\ test' = [test EXCEPT ![Bca] = test_res]
             /\ checked' = checked \cup {Bca}
             /\ CASE test_res = NotInteresting ->
                       EnterLegacyBisection(Bca, bad_commit)
                  [] test_res = Interesting ->
                       EnterLegacyBisection(Bca, good_commit)
                  [] test_res = BuildFailed ->
                       /\ pc' = "raised"
                       /\ UNCHANGED <<good_commit, bad_commit, cached_commits,
                                      midpoint, old_midpoint>>
    /\ UNCHANGED <<inputs, test_failed, counters, verification, result>>

\* One iteration of the first loop of _bisection that tests a cached commit.
LegacyInCacheStep ==
    /\ pc = "legacy_in_cache"
    /\ Len(cached_commits) # 0
    /\ LET idx == MidpointIdx(cached_commits)
           mid == cached_commits[idx]
       IN  /\ mid # midpoint
           /\ old_midpoint' = midpoint
           /\ midpoint' = mid
           /\ \E test_res \in LegacyIsInteresting(mid) :
                /\ test' = [test EXCEPT ![mid] = test_res]
                /\ checked' = checked \cup {mid}
                /\ IF MovesBad(test_res)
                   THEN /\ bad_commit' = mid
                        /\ cached_commits' =
                              SubSeq(cached_commits, idx + 1, Len(cached_commits))
                        /\ UNCHANGED good_commit
                   ELSE /\ good_commit' = mid
                        /\ cached_commits' = SubSeq(cached_commits, 1, idx - 1)
                        /\ UNCHANGED bad_commit
    /\ UNCHANGED <<pc, inputs, test_failed, counters, verification, result>>

\* The first loop of _bisection ends; the second one starts.
LegacyInCacheReturn ==
    /\ pc = "legacy_in_cache"
    /\ IF Len(cached_commits) = 0
       THEN TRUE
       ELSE cached_commits[MidpointIdx(cached_commits)] = midpoint
    /\ pc' = "legacy_normal"
    /\ midpoint' = NoCommit
    /\ old_midpoint' = NoCommit
    /\ test_failed' = FALSE
    /\ failed_to_build_counter' = 0
    /\ UNCHANGED <<inputs, test, checked, good_commit, bad_commit, cached_commits,
                   guaranteed_termination_counter, verification, result>>

\* Top of the second loop after a step that did not fail: the next midpoint,
\* or _bisection returns bad_rev and bisect goes on with it.
LegacyPropose ==
    /\ pc = "legacy_normal"
    /\ ~test_failed
    /\ LET mid == NextBisectionCommit(good_commit, bad_commit)
       IN  /\ old_midpoint' = midpoint
           /\ midpoint' = mid
           /\ pc' = IF mid = NoCommit \/ mid = midpoint
                    THEN IF LegacyChecked THEN "legacy_check" ELSE "legacy_record"
                    ELSE "legacy_eval"
    /\ UNCHANGED <<inputs, test, checked, good_commit, bad_commit, cached_commits,
                   test_failed, counters, verification, result>>

\* Top of the second loop after a build failure: a substitute midpoint, or
\* the exception that ends bisect.
LegacyRecover ==
    /\ pc = "legacy_normal"
    /\ test_failed
    /\ LET mid == LegacyMidpointAfterFailure(bad_commit, good_commit, midpoint,
                                             failed_to_build_counter)
       IN  IF failed_to_build_counter >= MaxBuildFail \/ mid = NoCommit
           THEN /\ pc' = "raised"
                /\ UNCHANGED <<midpoint, test_failed, failed_to_build_counter>>
           ELSE /\ midpoint' = mid
                /\ failed_to_build_counter' = failed_to_build_counter + 1
                /\ test_failed' = FALSE
                /\ pc' = "legacy_eval"
    /\ UNCHANGED <<inputs, test, checked, good_commit, bad_commit, cached_commits,
                   old_midpoint, guaranteed_termination_counter, verification,
                   result>>

\* The test of the midpoint in the second loop, build failure caught.
LegacyEvaluate ==
    /\ pc = "legacy_eval"
    /\ \E test_res \in LegacyIsInteresting(midpoint) :
        /\ test' = [test EXCEPT ![midpoint] = test_res]
        /\ checked' = checked \cup {midpoint}
        /\ IF test_res = BuildFailed
           THEN /\ test_failed' = TRUE
                /\ UNCHANGED <<good_commit, bad_commit>>
           ELSE IF MovesBad(test_res)
                THEN /\ bad_commit' = midpoint
                     /\ UNCHANGED <<good_commit, test_failed>>
                ELSE /\ good_commit' = midpoint
                     /\ UNCHANGED <<bad_commit, test_failed>>
    /\ pc' = "legacy_normal"
    /\ UNCHANGED <<inputs, cached_commits, midpoint, old_midpoint, counters,
                   verification, result>>

\* _check on the result of _bisection, bad_commit: the assertion evaluates the
\* second verdict only when the first one has the value it requires; a failed
\* assertion, a build failure and a result without parent all leave bisect by
\* an exception.
LegacyCheck ==
    /\ pc = "legacy_check"
    /\ LET prev_commit == FirstParent(bad_commit)
       IN  IF prev_commit = NoCommit
           THEN /\ pc' = "raised"
                /\ UNCHANGED <<test, checked, verification>>
           ELSE \E res \in LegacyIsInteresting(bad_commit) :
                  /\ bisection_res' = res
                  /\ IF LegacyResultPasses(res, InterestingIsBad)
                     THEN \E pre \in LegacyIsInteresting(prev_commit) :
                            /\ pre_bisection_res' = pre
                            /\ test' = [test EXCEPT ![bad_commit] = res,
                                                    ![prev_commit] = pre]
                            /\ checked' = checked \cup {bad_commit, prev_commit}
                            /\ pc' = IF LegacyPredecessorPasses(pre, InterestingIsBad)
                                     THEN "legacy_record" ELSE "raised"
                     ELSE /\ test' = [test EXCEPT ![bad_commit] = res]
                          /\ checked' = checked \cup {bad_commit}
                          /\ pc' = "raised"
                          /\ UNCHANGED pre_bisection_res
    /\ UNCHANGED <<inputs, good_commit, bad_commit, cached_commits, midpoint,
                   old_midpoint, test_failed, counters, result>>

\* The end of bisect: the result is appended to the bisections of the case.
LegacyRecord ==
    /\ pc = "legacy_record"
    /\ result' = bad_commit
    /\ pc' = "done"
    /\ UNCHANGED <<inputs, test, checked, good_commit, bad_commit, cached_commits,
                   midpoint, old_midpoint, test_failed, counters, verification>>

LegacyNext ==
    \/ LegacyBisect
    \/ LegacyInCacheStep
    \/ LegacyInCacheReturn
    \/ LegacyPropose
    \/ LegacyRecover
    \/ LegacyEvaluate
    \/ LegacyCheck
    \/ LegacyRecord

LegacySpec == LegacyInit /\ [][LegacyNext]_vars

\* C26: a fix search of the Bisector of src/bisector.py records its result c
\* only after the check with swapped polarities, test(c) not interesting and
\* test(c~1) interesting; a result that fails the check is not recorded. The
\* check of a regression search requires test(c) interesting and test(c~1)
\* not interesting.
C26_FixSearchVerified ==
    /\ (pc = "done" /\ ~InterestingIsBad)
          => /\ result # NoCommit
             /\ test[result] = NotInteresting
             /\ test[FirstParent(result)] = Interesting
    /\ (pc = "done" /\ InterestingIsBad /\ LegacyChecked)
          => /\ result # NoCommit
             /\ test[result] = Interesting
             /\ test[FirstParent(result)] = NotInteresting
    /\ (pc # "done" => result = NoCommit)

\* A fix search that has recorded a commit other than the end it started from.
C26_Witness ==
    /\ pc = "done" /\ ~InterestingIsBad
    /\ result \notin {NoCommit, good_rev}
    /\ bisection_res = NotInteresting /\ pre_bisection_res = Interesting


\* ------------------------------------------------- the scan of the cache
\* The names of the entries: the compiler name of a project followed by
\* nothing, by one or two pieces after dashes, or by a suffix after a dot.
EntryNames ==
    {CompilerName(p) \o rest :
        p \in CompilerProjects,
        rest \in {<<>>, <<"-", "a">>, <<"-", "a", "-", "b">>,
                  <<"-", "a", ".", "b">>, <<".", "a">>}}

Entries ==
    [name : EntryNames, is_symlink : BOOLEAN,
     binaries : {{}, {GCC}, {LLVM}}]

\* The cache directories of at most MaxCached entries, each name used once.
CacheDirs ==
    {dir \in {Range(s) : s \in UNION {[1..n -> Entries] : n \in 0..MaxCached}} :
        \A e1, e2 \in dir : e1.name = e2.name => e1 = e2}

\* Cache paths without and with a dash.
CachePrefixes == {<<"/", "c">>, <<"/", "b", "-", "c">>}

\* A call of find_cached_revisions(project, cache_prefix).
ScanInit ==
    /\ pc = "scan"
    /\ project \in CompilerProjects
    /\ cache_prefix \in CachePrefixes
    /\ cache_dir \in CacheDirs
    /\ compilers = <<>>
    /\ good_rev = NoCommit
    /\ bad_rev = NoCommit
    /\ cached = {}
    /\ test = [c \in Commits |-> Unevaluated]
    /\ checked = {}
    /\ good_commit = NoCommit
    /\ bad_commit = NoCommit
    /\ cached_commits = <<>>
    /\ midpoint = NoCommit
    /\ old_midpoint = NoCommit
    /\ test_failed = FALSE
    /\ failed_to_build_counter = 0
    /\ guaranteed_termination_counter = 0
    /\ bisection_res = Unevaluated
    /\ pre_bisection_res = Unevaluated
    /\ result = NoCommit

\* find_cached_revisions runs: it fills compilers and returns it.
ScanCache ==
    /\ pc = "scan"
    /\ \E listing \in Listings(cache_dir) :
          compilers' = FindCachedRevisions(project, cache_prefix, listing)
    /\ pc' = "scanned"
    /\ UNCHANGED <<good_rev, bad_rev, cached, project, cache_prefix, cache_dir,
                   test, checked, good_commit, bad_commit, cached_commits,
                   midpoint, old_midpoint, test_failed, counters, verification,
                   result>>

ScanSpec == ScanInit /\ [][ScanCache]_vars

\* C27: find_cached_revisions returns one identifier for each entry of the
\* cache directory whose name starts with the compiler name of the project,
\* which is no symbolic link and which holds the compiler binary, and nothing
\* for the other entries: the piece of the name of the entry after its last
\* dash. The scan leaves the directory as it is.
C27_CacheEnumeration ==
    [][(pc = "scan" /\ pc' = "scanned") =>
         /\ \E listing \in Listings(cache_dir) :
              LET kept == SelectSeq(listing, LAMBDA entry :
                              /\ StartsWith(entry.name, CompilerName(project))
                              /\ ~entry.is_symlink
                              /\ project \in entry.binaries)
              IN  compilers' = [i \in 1..Len(kept) |-> LastDashPiece(kept[i].name)]
         /\ UNCHANGED <<project, cache_prefix, cache_dir>>]_vars


====
